---- MODULE Spec2Model ----
(***************************************************************************)
(* Model of exocet (src/exocet/_exocet.py): the mapper algebra             *)
(* (DictMapper, CallableMapper, _StackedMapper, ExclusiveMapper,           *)
(* _PEP302Mapper) and the import isolation (_isolateImports, MakerFinder,  *)
(* ExocetModule, redirectLocalImports).                                    *)
(***************************************************************************)
EXTENDS Integers, Sequences, FiniteSets, TLC

VARIABLES
    \* ---- mapper algebra ----
    mapper,         \* the mapper object under test
    base,           \* the receiver of the last withOverrides call (or NoMapper)
    ovr,            \* the overrides dict of the last withOverrides call
    novr,           \* number of withOverrides calls applied so far
    res,            \* record of the last lookup/contains call on `mapper`
    \* ---- process-wide import state ----
    oldSysModules,  \* _PEP302Mapper._oldSysModules (class attribute)
    sys_modules,    \* sys.modules: name -> module object
    meta_path,      \* sys.meta_path: list of finders (MakerFinder objects)
    path_hooks,     \* sys.path_hooks
    builtin_import, \* __builtin__.__import__
    \* ---- the running program ----
    stack,          \* call stack: _isolateImports frames and ExocetModule calls
    heap,           \* the module objects created by _loadSingle
    returned,       \* what each completed load() returned: <<unit, object>>
    nops,           \* number of loads, imports and calls begun so far
    last,           \* the last import statement run / _isolateImports call left
    \* ---- the plugin registry (bravo_plugin.py) ----
    plugins,        \* a dict of plugins, name -> plugin, as handed to the helpers
    disk,           \* interface -> the candidates a scan of bravo.plugins yields
    cache,          \* __cache: interface -> dict of plugins
    nretr,          \* number of retrieve_* calls made so far
    pres,           \* record of the last call into bravo_plugin
    \* ---- threads that call load() side by side ----
    threads         \* thread -> the statement it is at and its local variables

mvars == <<mapper, base, ovr, novr, res>>
gvars == <<sys_modules, meta_path, path_hooks, builtin_import>>
pvars == <<stack, heap, returned, nops, last>>
rvars == <<plugins, disk, cache, nretr, pres, threads>>
vars == <<mapper, base, ovr, novr, res, oldSysModules, sys_modules, meta_path,
          path_hooks, builtin_import, stack, heap, returned, nops, last, plugins,
          disk,
          cache, nretr, pres, threads>>

-----------------------------------------------------------------------------
(* Bounds *)

\* longest list handed to _StackedMapper(...) directly
MaxSubs == 2
\* most withOverrides calls chained on one mapper
MaxOverrides == 2
\* deepest call stack (nested loads and calls into loaded modules)
MaxDepth == 2
\* most operations (load() calls, import statements of loaded code, calls into
\* loaded modules) begun in one run
MaxOps == 4
\* most names the plugins of one dict declare in before and after together
MaxEdges == 2
\* longest name list handed to expand_names
MaxTokens == 3
\* most retrieve_* calls in one run
MaxRetrievals == 2
\* most units in the package a scan walks
MaxUnits == 2

-----------------------------------------------------------------------------
(* Names, targets, outcomes *)

\* module names that are keys of the dicts / callables / exclusion sets
KeyNames == {"sys", "os"}
\* module names that are looked up
Names == {"sys", "os", "email"}
\* module names imported by code running under isolation
ImportNames == {"sys", "os", "os.path"}
\* names the ambient import mechanism can import (builtin, frozen or on sys.path)
Importable == {"sys", "warnings", "os", "os.path", "ext"}
\* sys.builtin_module_names
BuiltinModuleNames == {"sys"}

\* opaque objects a DictMapper maps to
DictTargets == {"t1"}

EmptyMap == [n \in {} |-> "t1"]

\* dict d updated with dict e (dict.update)
Update(d, e) ==
    [n \in (DOMAIN d) \cup (DOMAIN e) |-> IF n \in DOMAIN e THEN e[n] ELSE d[n]]

\* the module object the ambient import mechanism yields for a name
HostMod(name) == "host:" \o name

\* outcomes of a call: a returned value, an ImportError, or some other exception
Ok(v) == [kind |-> "ok", val |-> v, by |-> "-"]
ImportErr(name, who) == [kind |-> "ImportError", val |-> name, by |-> who]
OtherErr(what, who) == [kind |-> "Error", val |-> what, by |-> who]
Unbound == [kind |-> "unbound", val |-> "-", by |-> "-"]

-----------------------------------------------------------------------------
(* Mapper objects *)

NoMapper == [kind |-> "none", tab |-> EmptyMap, subs |-> <<>>, excluded |-> {}]

\* DictMapper(_dict)
DictMapper(d) ==
    [kind |-> "DictMapper", tab |-> d, subs |-> <<>>, excluded |-> {}]
\* CallableMapper(baseLookup): the callable is a table name -> a target,
\* "ImportError" or "KeyError" (raised); names outside the table raise ImportError
CallableMapper(f) ==
    [kind |-> "CallableMapper", tab |-> f, subs |-> <<>>, excluded |-> {}]
\* _StackedMapper(submappers)
StackedMapper(subs) ==
    [kind |-> "_StackedMapper", tab |-> EmptyMap, subs |-> subs, excluded |-> {}]
\* ExclusiveMapper(submapper, excluded)
ExclusiveMapper(sub, ex) ==
    [kind |-> "ExclusiveMapper", tab |-> EmptyMap, subs |-> <<sub>>, excluded |-> ex]
\* the module-level singletons
emptyMapper == CallableMapper(EmptyMap)
pep302Mapper ==
    [kind |-> "_PEP302Mapper", tab |-> EmptyMap, subs |-> <<>>, excluded |-> {}]

\* def _noLookup(name) / a user callable given as a table
CallBase(f, name) ==
    IF name \in DOMAIN f
    THEN IF f[name] = "ImportError" THEN ImportErr(name, "callable")
         ELSE IF f[name] = "KeyError" THEN OtherErr("KeyError", "callable")
         ELSE Ok(f[name])
    ELSE ImportErr(name, "_noLookup")

\* the builtin __import__ run by _PEP302Mapper._baseLookup: sys.modules holds
\* _oldSysModules, sys.meta_path holds the mapper's saved (hook-free) meta path
AmbientImport(name, modules) ==
    IF name \in DOMAIN modules THEN [out |-> Ok(modules[name]), modules |-> modules]
    ELSE IF name \in Importable
    THEN [out |-> Ok(HostMod(name)),
          modules |-> Update(modules, [n \in {name} |-> HostMod(name)])]
    ELSE [out |-> ImportErr(name, "__import__"), modules |-> modules]

\* _PEP302Mapper._baseLookup(name): imports with sys.modules = _oldSysModules
\* and, in the finally block, folds the resulting sys.modules back into
\* _oldSysModules; the caller's sys.modules / meta_path / __import__ are put back
PEP302BaseLookup(name, old) ==
    LET r == AmbientImport(name, old)
    IN  [out |-> r.out, old |-> Update(old, r.modules)]

\* A call result: outcome, the calls made on other mappers (in order, with
\* their nesting level below the receiver), and _oldSysModules afterwards.
Result(out, log, old) == [out |-> out, log |-> log, old |-> old]
Call(lvl, m, op) == [lvl |-> lvl, m |-> m, op |-> op]

RECURSIVE Lookup(_, _, _, _)
RECURSIVE StackedLoop(_, _, _, _, _, _, _)
RECURSIVE StackedStep(_, _, _, _, _, _, _)
RECURSIVE Contains(_, _, _, _)

\* the outcome r of a call delegated to a sub-mapper, with that call logged
Delegated(call, r) == Result(r.out, <<call>> \o r.log, r.old)

\* DictMapper.lookup
DictLookup(m, name, old) ==
    IF name \in DOMAIN m.tab
    THEN Result(Ok(m.tab[name]), <<>>, old)
    ELSE Result(ImportErr(name, "DictMapper"), <<>>, old)

\* DictMapper.contains
DictContains(m, name, old) ==
    Result(Ok(IF name \in DOMAIN m.tab THEN "True" ELSE "False"), <<>>, old)

\* CallableMapper.lookup: an ImportError of the callable is replaced by the
\* mapper's own ImportError, anything else passes through
CallableLookupWrap(name, r) ==
    IF r.out.kind = "ImportError"
    THEN Result(ImportErr(name, "CallableMapper"), <<>>, r.old)
    ELSE Result(r.out, <<>>, r.old)
CallableLookup(m, name, old) ==
    CallableLookupWrap(name,
        IF m.kind = "_PEP302Mapper"
        THEN PEP302BaseLookup(name, old)
        ELSE [out |-> CallBase(m.tab, name), old |-> old])

\* one pass of the loop body: r is the outcome of m.lookup(name) for m = subs[i];
\* `break` on a value, `continue` on ImportError, anything else propagates
StackedStep(subs, i, name, r, log, lvl, log2) ==
    IF r.out.kind = "ImportError"
    THEN StackedLoop(subs, i + 1, name, r.old, r.out, log2 \o r.log, lvl)
    ELSE Result(r.out, log2 \o r.log, r.old)

\* the for/else loop of _StackedMapper.lookup; e is the last ImportError caught
StackedLoop(subs, i, name, old, e, log, lvl) ==
    IF i > Len(subs)
    THEN IF e = Unbound
         THEN Result(OtherErr("UnboundLocalError", "_StackedMapper"), log, old)
         ELSE Result(e, log, old)
    ELSE StackedStep(subs, i, name, Lookup(subs[i], name, old, lvl + 1), log, lvl,
                     Append(log, Call(lvl + 1, subs[i], "lookup")))

\* _StackedMapper.lookup
StackedLookup(m, name, old, lvl) ==
    StackedLoop(m.subs, 1, name, old, Unbound, <<>>, lvl)

\* ExclusiveMapper.lookup
ExclusiveLookup(m, name, old, lvl) ==
    IF name \in m.excluded
    THEN Result(ImportErr(name, "ExclusiveMapper"), <<>>, old)
    ELSE Delegated(Call(lvl + 1, m.subs[1], "lookup"),
                   Lookup(m.subs[1], name, old, lvl + 1))

\* IMapper.lookup, dispatched on the receiver's class
Lookup(m, name, old, lvl) ==
    CASE m.kind = "DictMapper" -> DictLookup(m, name, old)
      [] m.kind \in {"CallableMapper", "_PEP302Mapper"} -> CallableLookup(m, name, old)
      [] m.kind = "_StackedMapper" -> StackedLookup(m, name, old, lvl)
      [] m.kind = "ExclusiveMapper" -> ExclusiveLookup(m, name, old, lvl)

\* contains() of CallableMapper and of _StackedMapper: try self.lookup(name),
\* True; except ImportError, False; any other exception propagates
TryLookup(r) ==
    IF r.out.kind = "ok" THEN Result(Ok("True"), r.log, r.old)
    ELSE IF r.out.kind = "ImportError" THEN Result(Ok("False"), r.log, r.old)
    ELSE r
ContainsByLookup(m, name, old, lvl) == TryLookup(Lookup(m, name, old, lvl))

\* a contains() that forgets the exclusion set
ExclusiveContainsUnchecked(m, name, old, lvl) ==
    Delegated(Call(lvl + 1, m.subs[1], "contains"),
              Contains(m.subs[1], name, old, lvl + 1))

\* ExclusiveMapper.contains
ExclusiveContains(m, name, old, lvl) ==
    IF name \in m.excluded
    THEN Result(Ok("False"), <<>>, old)
    ELSE Delegated(Call(lvl + 1, m.subs[1], "contains"),
                   Contains(m.subs[1], name, old, lvl + 1))

\* IMapper.contains, dispatched on the receiver's class
Contains(m, name, old, lvl) ==
    CASE m.kind = "DictMapper" -> DictContains(m, name, old)
      [] m.kind \in {"CallableMapper", "_PEP302Mapper", "_StackedMapper"} ->
            ContainsByLookup(m, name, old, lvl)
      [] m.kind = "ExclusiveMapper" -> ExclusiveContains(m, name, old, lvl)

\* a withOverrides that stacks the overrides behind the receiver
WithOverridesBehind(m, overrides) == StackedMapper(<<m, DictMapper(overrides)>>)

\* withOverrides(overrides), the same body in all four classes
WithOverrides(m, overrides) == StackedMapper(<<DictMapper(overrides), m>>)

\* a withOverrides that also writes the overrides into a DictMapper receiver
ReceiverAbsorbsOverrides(m, overrides) ==
    IF m.kind = "DictMapper" THEN DictMapper(Update(m.tab, overrides)) ELSE m

\* the receiver once withOverrides has returned: the body assigns nothing to
\* self and calls nothing on it
ReceiverAfterOverrides(m, overrides) == m

-----------------------------------------------------------------------------
(* The mappers the checks range over *)

\* the dicts handed to DictMapper
DictTables ==
    UNION {[S -> DictTargets] : S \in {{"sys"}, {"sys", "os"}}}
\* callables: what each key name does
CallTables ==
    UNION {[S -> {"t3", "KeyError"}] : S \in {{}, {"sys"}}}

LeafMappers ==
    {DictMapper(d) : d \in DictTables}
        \cup {CallableMapper(f) : f \in CallTables}
        \cup {pep302Mapper}

SeqsUpTo(S, n) == UNION {[1..k -> S] : k \in 0..n}

StackedMappers == {StackedMapper(s) : s \in SeqsUpTo(LeafMappers, MaxSubs)}
ExclusiveMappers ==
    {ExclusiveMapper(l, ex) :
        l \in LeafMappers \cup {StackedMapper(<<>>)}, ex \in SUBSET KeyNames}

BaseMappers == LeafMappers \cup StackedMappers \cup ExclusiveMappers

\* the override dicts handed to withOverrides
OverrideTables ==
    {EmptyMap, [n \in {"sys"} |-> "t2"], [n \in {"sys", "os"} |-> "t4"]}

-----------------------------------------------------------------------------
(* Import machinery: MakerFinder, the builtin __import__, _isolateImports *)

\* An __import__ entrypoint.  chain = <<>>: the builtin import (tail "orig",
\* _originalImport) or redirectLocalImports (tail "redirect").  Otherwise the
\* bound method xocImport of MakerFinder(oldImport, mapper) with mapper =
\* chain[1] and oldImport = the entrypoint made of the rest.
ImportFn(chain, tail) == [chain |-> chain, tail |-> tail]
OriginalImportFn == ImportFn(<<>>, "orig")
RedirectLocalImportsFn == ImportFn(<<>>, "redirect")

\* MakerFinder(oldImport, mapper)
MakerFinder(oldImport, m) == [mapper |-> m, oldImport |-> oldImport]
NoMF == MakerFinder(OriginalImportFn, NoMapper)
\* mf.xocImport
XocImportFn(mf) == ImportFn(<<mf.mapper>> \o mf.oldImport.chain, mf.oldImport.tail)
\* the MakerFinder a xocImport entrypoint is bound to
FinderOf(fn) == MakerFinder(ImportFn(Tail(fn.chain), fn.tail), Head(fn.chain))

\* _sysModulesSpecialCases, as fqn -> the dotted names of the listed submodules
SysModulesSpecialCases == [n \in {"os"} |-> {"os.path"}]

\* getattr(p, submoduleName, None) for the module p found for fqn
GetAttr(p, fqn, subfqn) == IF p = HostMod(fqn) THEN HostMod(subfqn) ELSE "None"

\* the process-wide state as one value
EnvOf(mods, mp, ph, imp, old) ==
    [sys_modules |-> mods, meta_path |-> mp, path_hooks |-> ph, import_ |-> imp,
     old |-> old]
Env == EnvOf(sys_modules, meta_path, path_hooks, builtin_import, oldSysModules)
\* the part of it the isolation promises to put back
Visible(E) ==
    [sys_modules |-> E.sys_modules, meta_path |-> E.meta_path,
     path_hooks |-> E.path_hooks, import_ |-> E.import_]

NoExit == [how |-> "none", nested |-> FALSE, dirty |-> FALSE, depth |-> 0,
           pre |-> Visible(EnvOf(EmptyMap, <<>>, <<>>, OriginalImportFn, EmptyMap)),
           post |-> Visible(EnvOf(EmptyMap, <<>>, <<>>, OriginalImportFn, EmptyMap))]
ExitRec(how, nested, depth, pre, post) ==
    [how |-> how, nested |-> nested, dirty |-> FALSE, depth |-> depth, pre |-> pre,
     post |-> post]

\* a lookupWithMapper without its except clauses
PassEveryError(fqn, r) == r
\* lookupWithMapper(mapper, fqn): ImportError passes, anything else becomes one
ConvertToImportError(fqn, r) ==
    IF r.out.kind = "Error"
    THEN Result(ImportErr(fqn, "lookupWithMapper"), r.log, r.old)
    ELSE r
LookupWithMapper(m, fqn, old) == ConvertToImportError(fqn, Lookup(m, fqn, old, 0))

\* MakerFinder.load_module(fqn)
\* the rest of load_module once p = lookupWithMapper(...) is known (as r)
LoadModuleFound(fqn, E, r) ==
    IF r.out.kind = "ok" /\ fqn \in DOMAIN SysModulesSpecialCases
    THEN [out |-> r.out,
          env |-> [E EXCEPT !.old = r.old,
                            !.sys_modules =
                                Update(@, [s \in SysModulesSpecialCases[fqn] |->
                                              GetAttr(r.out.val, fqn, s)])],
          exit |-> NoExit]
    ELSE [out |-> r.out, env |-> [E EXCEPT !.old = r.old], exit |-> NoExit]
LoadModule(mf, fqn, E) ==
    LoadModuleFound(fqn, E, LookupWithMapper(mf.mapper, fqn, E.old))

\* the ambient mechanism's result r, with the sys.modules it leaves
Imported(E, r) ==
    [out |-> r.out, env |-> [E EXCEPT !.sys_modules = r.modules], exit |-> NoExit]

\* _originalImport(name): the builtin __import__.  sys.modules first (a None
\* entry means "no such module"), then the finders of sys.meta_path (a
\* MakerFinder's find_module claims every name), then the ambient mechanism.
OriginalImport(name, E) ==
    IF name \in DOMAIN E.sys_modules
    THEN [out |-> IF E.sys_modules[name] = "None"
                  THEN ImportErr(name, "__import__")
                  ELSE Ok(E.sys_modules[name]),
          env |-> E, exit |-> NoExit]
    ELSE IF E.meta_path # <<>> THEN LoadModule(E.meta_path[1], name, E)
    ELSE Imported(E, AmbientImport(name, E.sys_modules))

\* _isolateImports up to the try: save, displace, the 'warnings' special case.
\* ok = FALSE: the mapper raised, and the exception leaves _isolateImports here.
\* what _isolateImports keeps in its locals
Saved(E) ==
    [oldMetaPath |-> E.meta_path, oldPathHooks |-> E.path_hooks,
     oldImport |-> E.import_]
\* the displaced state: lines 413-419
Displaced(mf, E) ==
    [sys_modules |-> EmptyMap, meta_path |-> <<mf>>, path_hooks |-> <<>>,
     import_ |-> XocImportFn(mf), old |-> E.sys_modules]
\* sys.modules['warnings'] = mf.mapper.lookup('warnings'), l its outcome
WarningsLookedUp(saved, E1, l) ==
    IF l.out.kind # "ok"
    THEN [ok |-> FALSE, err |-> l.out, env |-> [E1 EXCEPT !.old = l.old],
          saved |-> saved]
    ELSE [ok |-> TRUE, err |-> Unbound,
          env |-> [E1 EXCEPT !.old = l.old,
                             !.sys_modules = [n \in {"warnings"} |-> l.out.val]],
          saved |-> saved]
\* if mf.mapper.contains('warnings'), c its outcome
WarningsChecked(mf, saved, E1, c) ==
    IF c.out.kind # "ok"
    THEN [ok |-> FALSE, err |-> c.out, env |-> [E1 EXCEPT !.old = c.old],
          saved |-> saved]
    ELSE IF c.out.val = "False"
    THEN [ok |-> TRUE, err |-> Unbound, env |-> [E1 EXCEPT !.old = c.old],
          saved |-> saved]
    ELSE WarningsLookedUp(saved, E1, Lookup(mf.mapper, "warnings", c.old, 0))
IsolateEnter(mf, E) ==
    WarningsChecked(mf, Saved(E), Displaced(mf, E),
                    Contains(mf.mapper, "warnings", E.sys_modules, 0))

\* the finally block of _isolateImports
IsolateExit(saved, E) ==
    [E EXCEPT !.meta_path = saved.oldMetaPath, !.path_hooks = saved.oldPathHooks,
              !.sys_modules = E.old, !.import_ = saved.oldImport]

\* _isolateImports(mf, _originalImport, name, globals), run to completion
\* f returned or raised (r), then the finally block ran (E3)
IsolatedDone(E, depth, r, E3) ==
    [out |-> r.out, env |-> E3,
     exit |-> ExitRec(IF r.out.kind = "ok" THEN "return" ELSE "raise",
                      FALSE, depth, Visible(E), Visible(E3))]
IsolatedRun(E, depth, saved, r) ==
    IsolatedDone(E, depth, r, IsolateExit(saved, r.env))
IsolatedEntered(name, E, depth, en) ==
    IF ~en.ok
    THEN [out |-> en.err, env |-> en.env,
          exit |-> ExitRec("mapper_error", FALSE, depth, Visible(E), Visible(en.env))]
    ELSE IsolatedRun(E, depth, en.saved, OriginalImport(name, en.env))
IsolatedOriginalImport(mf, name, E, depth) ==
    IsolatedEntered(name, E, depth, IsolateEnter(mf, E))

\* redirectLocalImports(name, globals); ctx is globals.get('__exocet_context__')
RedirectLocalImports(name, ctx, E, depth) ==
    IF ctx # NoMF THEN IsolatedOriginalImport(ctx, name, E, depth)
    ELSE OriginalImport(name, E)

RECURSIVE RunImport(_, _, _, _, _)
\* an import statement: calls the entrypoint fn with the importing code's globals
RunImport(fn, name, ctx, E, depth) ==
    IF fn.chain # <<>>
    THEN \* MakerFinder.xocImport
         IF name \in BuiltinModuleNames
         THEN LoadModule(FinderOf(fn), name, E)
         ELSE RunImport(FinderOf(fn).oldImport, name, ctx, E, depth)
    ELSE IF fn.tail = "redirect" THEN RedirectLocalImports(name, ctx, E, depth)
    ELSE OriginalImport(name, E)

\* sys.modules of the host before anything is loaded
HostModules == [n \in {"sys", "warnings"} |-> HostMod(n)]
\* sys.path_hooks of the host
HostPathHooks == <<"zipimporter">>

NoLast == [ev |-> "none", who |-> "-", name |-> "-", out |-> Unbound,
           via |-> NoMapper, exit |-> NoExit]

\* outcomes of a call into bravo_plugin: a returned value or a raised exception
POk(v) == [kind |-> "ok", val |-> v]
PRaise(exc, about) == [kind |-> exc, val |-> about]
NoPRes == [op |-> "none", iface |-> "-", names |-> <<>>, params |-> FALSE,
           out |-> POk(<<>>), was |-> EmptyMap, hit |-> FALSE, scanned |-> FALSE]

\* the threads of the process that call load()
Threads == {"T1", "T2"}
\* a thread that has not called load(): no statement run, no local assigned
ThreadIdle ==
    [pc |-> 0, mf |-> NoMF, oldMetaPath |-> <<>>, oldPathHooks |-> <<>>,
     oldImport |-> OriginalImportFn, raced |-> FALSE]

\* nothing loaded, nothing running
IsoIdle ==
    /\ threads = [t \in Threads |-> ThreadIdle]
    /\ sys_modules = HostModules
    /\ meta_path = <<>>
    /\ path_hooks = HostPathHooks
    /\ builtin_import = OriginalImportFn
    /\ stack = <<>>
    /\ heap = <<>>
    /\ returned = <<>>
    /\ nops = 0
    /\ last = NoLast

\* no interface scanned, nothing cached, nothing retrieved
RegistryIdle ==
    /\ disk = EmptyMap
    /\ cache = EmptyMap
    /\ nretr = 0
    /\ pres = NoPRes

-----------------------------------------------------------------------------
(* Mapper operations as actions *)

NoRes == [op |-> "none", name |-> "-", out |-> Unbound, log |-> <<>>,
          pre |-> EmptyMap]

MapperInit ==
    /\ plugins = EmptyMap
    /\ mapper \in BaseMappers
    /\ base = NoMapper
    /\ ovr = EmptyMap
    /\ novr = 0
    /\ res = NoRes
    /\ oldSysModules = EmptyMap
    /\ IsoIdle
    /\ RegistryIdle

\* r2 = mapper.withOverrides(m)
DoWithOverrides(m) ==
    /\ novr < MaxOverrides
    /\ mapper' = WithOverrides(mapper, m)
    /\ base' = ReceiverAfterOverrides(mapper, m)
    /\ ovr' = m
    /\ novr' = novr + 1
    /\ res' = NoRes
    /\ UNCHANGED <<oldSysModules, gvars, pvars, rvars>>

\* mapper.lookup(name)
DoLookup(name) ==
    LET r == Lookup(mapper, name, oldSysModules, 0)
    IN  /\ res' = [op |-> "lookup", name |-> name, out |-> r.out, log |-> r.log,
                   pre |-> oldSysModules]
        /\ oldSysModules' = r.old
        /\ UNCHANGED <<mapper, base, ovr, novr, gvars, pvars, rvars>>

\* mapper.contains(name)
DoContains(name) ==
    LET r == Contains(mapper, name, oldSysModules, 0)
    IN  /\ res' = [op |-> "contains", name |-> name, out |-> r.out, log |-> r.log,
                   pre |-> oldSysModules]
        /\ oldSysModules' = r.old
        /\ UNCHANGED <<mapper, base, ovr, novr, gvars, pvars, rvars>>

MapperNext ==
    \/ \E m \in OverrideTables : DoWithOverrides(m)
    \/ \E n \in Names : DoLookup(n)
    \/ \E n \in Names : DoContains(n)

SpecMapper == MapperInit /\ [][MapperNext]_vars

-----------------------------------------------------------------------------
(* Loading units and running their code *)

\* the loadable units; "ext" is native code (.so / .pyd)
Units == {"util", "ext"}
NativeUnits == {"ext"}

\* the mappers handed to load(): one whose callable raises KeyError, one that
\* knows "os" only (on every other name it answers as emptyMapper does), and
\* pep302Mapper
brokenMapper == CallableMapper([n \in {"warnings"} |-> "KeyError"])
dictMapper == DictMapper([n \in {"os"} |-> "t1"])
LoadMappers == {dictMapper, pep302Mapper, brokenMapper}

\* the value the host assigns to a loaded module's testAttribute
AttrValues == {"a value"}

\* a module object made by _loadSingle: its unit, the MakerFinder stored as
\* __exocet_context__ in its globals, and an attribute set from outside
ModuleObj(unit, mf, attr) == [unit |-> unit, ctx |-> mf, attr |-> attr]
\* the reference (identity) of heap object i
ModRef(i) == "module#" \o ToString(i)

NoSaved == [oldMetaPath |-> <<>>, oldPathHooks |-> <<>>, oldImport |-> OriginalImportFn]
\* an _isolateImports activation running _loadSingle(mk, mf, m); m = 0 is None
IsoFrame(mf, saved, unit, m, pre) ==
    [kind |-> "iso", mf |-> mf, saved |-> saved, unit |-> unit, m |-> m, mod |-> 0,
     pre |-> pre, nested |-> FALSE, dirty |-> FALSE]
\* a _localImportWrapper activation running a callable of heap object mod
CallFrame(mod, pre) ==
    [kind |-> "call", mf |-> NoMF, saved |-> NoSaved, unit |-> "-", m |-> 0,
     mod |-> mod, pre |-> pre, nested |-> FALSE, dirty |-> FALSE]

Top == stack[Len(stack)]
Pop == SubSeq(stack, 1, Len(stack) - 1)
\* whose code is running: the host's, a unit's top level, a loaded function's
Who == IF stack = <<>> THEN "host" ELSE IF Top.kind = "iso" THEN "unit" ELSE "call"
\* __exocet_context__ in the globals of the running code
Ctx == IF Who = "call" THEN heap[Top.mod].ctx ELSE NoMF
\* the mapper the running code was (or is being) loaded with
OwnMapper ==
    IF Who = "call" THEN heap[Top.mod].ctx.mapper
    ELSE IF Who = "unit" THEN Top.mf.mapper ELSE NoMapper
\* every active frame has seen another _isolateImports call begin
MarkNested(st) == [i \in DOMAIN st |-> [st[i] EXCEPT !.nested = TRUE]]
\* ... and that call was left with the isolated state still installed
MarkDirty(st) == [i \in DOMAIN st |-> [st[i] EXCEPT !.nested = TRUE, !.dirty = TRUE]]

SetEnv(E) ==
    /\ sys_modules' = E.sys_modules
    /\ meta_path' = E.meta_path
    /\ path_hooks' = E.path_hooks
    /\ builtin_import' = E.import_
    /\ oldSysModules' = E.old

Event(ev, name, out, exit) ==
    [ev |-> ev, who |-> Who, name |-> name, out |-> out, via |-> OwnMapper,
     exit |-> exit]

\* no mapper under test, nothing loaded
ExocetIdle ==
    /\ mapper = NoMapper
    /\ base = NoMapper
    /\ ovr = EmptyMap
    /\ novr = 0
    /\ res = NoRes
    /\ oldSysModules = EmptyMap
    /\ IsoIdle

IsoInit ==
    /\ plugins = EmptyMap
    /\ RegistryIdle
    /\ ExocetIdle

\* the effect of an import whose result is r
Imports(ev, name, r) ==
    /\ SetEnv(r.env)
    /\ last' = Event(ev, name, r.out, r.exit)
    /\ stack' = IF r.exit = NoExit THEN stack
                ELSE IF r.exit.how = "mapper_error" THEN MarkDirty(stack)
                ELSE MarkNested(stack)

\* what load() of a native unit hands back: r is the outcome of importing it
NativeReturned(unit, r) ==
    IF r.out.kind = "ok"
    THEN Append(returned, [unit |-> unit, obj |-> r.out.val, m |-> FALSE,
                           native |-> TRUE])
    ELSE returned

\* _isolateImports got as far as en; on success _loadSingle starts
Entered(unit, m, mf, en) ==
    /\ SetEnv(en.env)
    /\ IF en.ok
       THEN /\ stack' = Append(MarkNested(stack),
                               IsoFrame(mf, en.saved, unit, m, Visible(Env)))
            /\ last' = Event("enter", unit, Unbound, NoExit)
       ELSE /\ stack' = MarkDirty(stack)
            /\ last' = Event("exit", unit, en.err,
                             ExitRec("mapper_error", FALSE, Len(stack) + 1,
                                     Visible(Env), Visible(en.env)))

\* code of a unit or of a loaded function executes `import name`
ImportStmt(name) ==
    /\ stack # <<>>
    /\ nops < MaxOps
    /\ nops' = nops + 1
    /\ Imports("import", name, RunImport(builtin_import, name, Ctx, Env, Len(stack) + 1))
    /\ UNCHANGED <<heap, returned, mvars, rvars>>

\* maker.load() of a native unit: imported through the current entrypoint
NativeLoaded(unit, r) ==
    /\ Imports("native", unit, r)
    /\ returned' = NativeReturned(unit, r)
    /\ UNCHANGED heap
NativeLoad(unit) ==
    NativeLoaded(unit, RunImport(builtin_import, unit, NoMF, Env, Len(stack) + 1))

\* load(maker, mapper, m) up to the point where _loadSingle starts running the
\* unit's code inside _isolateImports
Load(unit, mp, m) ==
    /\ nops < MaxOps
    /\ Len(stack) < MaxDepth
    /\ nops' = nops + 1
    /\ UNCHANGED <<mvars, rvars>>
    /\ IF unit \in NativeUnits THEN NativeLoad(unit)
       ELSE /\ Entered(unit, m, MakerFinder(builtin_import, mp),
                       IsolateEnter(MakerFinder(builtin_import, mp), Env))
            /\ UNCHANGED <<heap, returned>>

\* _loadSingle with a module object that is shared by every load of the unit
LoadSingleShared(unit, mf, m) ==
    LET known == {i \in DOMAIN heap : heap[i].unit = unit}
    IN  IF known # {}
        THEN LET i == CHOOSE i \in known : TRUE
             IN  [heap |-> [heap EXCEPT ![i] = ModuleObj(unit, mf, @.attr)], obj |-> i]
        ELSE [heap |-> Append(heap, ModuleObj(unit, mf, "unset")),
              obj |-> Len(heap) + 1]

\* _loadSingle(mk, mf, m): a new ExocetModule unless m is given, filled with the
\* globals of the executed code, among them __exocet_context__ = mf
LoadSingle(unit, mf, m) ==
    IF m = 0
    THEN [heap |-> Append(heap, ModuleObj(unit, mf, "unset")), obj |-> Len(heap) + 1]
    ELSE [heap |-> [heap EXCEPT ![m] = ModuleObj(unit, mf, @.attr)], obj |-> m]

\* load() hands back the module object ls.obj
Loaded(ls) ==
    /\ heap' = ls.heap
    /\ returned' = Append(returned, [unit |-> Top.unit, obj |-> ModRef(ls.obj),
                                     m |-> Top.m # 0, native |-> FALSE])

\* the top _isolateImports frame is left with the state E
Left(how, E) ==
    /\ SetEnv(E)
    /\ last' = Event("exit", Top.unit, Unbound,
                     [ExitRec(how, Top.nested, Len(stack), Top.pre, Visible(E))
                         EXCEPT !.dirty = Top.dirty])

\* the unit's code ran to its end: _loadSingle returns the module, the finally
\* block of _isolateImports runs, load() returns
LoadReturn ==
    /\ stack # <<>>
    /\ Top.kind = "iso"
    /\ Loaded(LoadSingle(Top.unit, Top.mf, Top.m))
    /\ Left("return", IsolateExit(Top.saved, Env))
    /\ stack' = Pop
    /\ UNCHANGED <<nops, mvars, rvars>>

\* the unit's code raised (an uncaught ImportError, a SyntaxError, ...): only
\* the finally block of _isolateImports runs
LoadRaise ==
    /\ stack # <<>>
    /\ Top.kind = "iso"
    /\ Left("raise", IsolateExit(Top.saved, Env))
    /\ stack' = Pop
    /\ UNCHANGED <<heap, returned, nops, mvars, rvars>>

\* the running code calls a callable attribute of loaded module i:
\* ExocetModule.__getattribute__ wraps it in _localImportWrapper
CallLoaded(i) ==
    /\ Len(stack) < MaxDepth
    /\ nops < MaxOps
    /\ nops' = nops + 1
    /\ i \in DOMAIN heap
    /\ builtin_import' = RedirectLocalImportsFn
    /\ last' = Event("call", heap[i].unit, Unbound, NoExit)
    /\ stack' = Append(stack, CallFrame(i, Visible(Env)))
    /\ UNCHANGED <<sys_modules, meta_path, path_hooks, oldSysModules, heap,
                   returned, mvars, rvars>>

\* the finally block of _localImportWrapper
WrapperFinally(atCall) == OriginalImportFn

\* the callable returns or raises: the finally block of _localImportWrapper
CallExit ==
    /\ stack # <<>>
    /\ Top.kind = "call"
    /\ builtin_import' = WrapperFinally(Top.pre.import_)
    /\ last' = Event("callexit", "-", Unbound, NoExit)
    /\ stack' = Pop
    /\ UNCHANGED <<sys_modules, meta_path, path_hooks, oldSysModules, heap,
                   returned, nops, mvars, rvars>>

\* the host assigns m.testAttribute = v on the module it got from a load
SetAttr(k, v) ==
    /\ stack = <<>>
    /\ k \in DOMAIN returned
    /\ ~returned[k].native
    /\ \E i \in DOMAIN heap :
          /\ returned[k].obj = ModRef(i)
          /\ heap[i].attr # v
          /\ heap' = [heap EXCEPT ![i].attr = v]
    /\ last' = Event("setattr", returned[k].unit, Ok(v), NoExit)
    /\ UNCHANGED <<oldSysModules, gvars, stack, returned, nops,
                   mvars, rvars>>

IsoNext ==
    \/ \E n \in ImportNames : ImportStmt(n)
    \/ \E u \in Units, mp \in LoadMappers, m \in {0} \cup DOMAIN heap : Load(u, mp, m)
    \/ LoadReturn
    \/ LoadRaise
    \/ \E i \in DOMAIN heap : CallLoaded(i)
    \/ CallExit
    \/ \E k \in DOMAIN returned, v \in AttrValues : SetAttr(k, v)

SpecIso == IsoInit /\ [][IsoNext]_vars

-----------------------------------------------------------------------------
(* Two threads in _isolateImports: one statement of one thread at a time *)

\* the statements of _isolateImports (lines 411-434), by position; f(*a, **kw)
\* is statement Body, a thread that is through has position Through
SaveMetaPath == 1
SavePathHooks == 2
SaveSysModules == 3
SaveImport == 4
SetPathHooks == 5
ClearModules == 6
SetMetaPath == 7
SetImport == 8
Warnings == 9
Body == 10
RestoreMetaPath == 11
RestorePathHooks == 12
RestoreClear == 13
RestoreUpdate == 14
RestoreImport == 15
Through == RestoreImport + 1

ThreadMappers == {dictMapper, emptyMapper}

Running(th) == th.pc \in SaveMetaPath..RestoreImport

\* a thread and the process state after one of its statements
Ran(th, E) == [th |-> [th EXCEPT !.pc = @ + 1], env |-> E]
\* the exception of the mapper leaves _isolateImports before its try
Broke(th, E) == [th |-> [th EXCEPT !.pc = Through], env |-> E]

\* the 'warnings' special case run by thread th, en its outcome
WarningsRan(th, en) == IF en.ok THEN Ran(th, en.env) ELSE Broke(th, en.env)

\* a finally block that puts the ambient __import__ back
RestoredAmbient(th) == OriginalImportFn
\* __builtins__['__import__'] = oldImport
RestoredImport(th) == th.oldImport

\* the statement thread th is at, run on the process state E
Exec(th, E) ==
    CASE th.pc = SaveMetaPath -> Ran([th EXCEPT !.oldMetaPath = E.meta_path], E)
      [] th.pc = SavePathHooks -> Ran([th EXCEPT !.oldPathHooks = E.path_hooks], E)
      [] th.pc = SaveSysModules -> Ran(th, [E EXCEPT !.old = E.sys_modules])
      [] th.pc = SaveImport -> Ran([th EXCEPT !.oldImport = E.import_], E)
      [] th.pc = SetPathHooks -> Ran(th, [E EXCEPT !.path_hooks = <<>>])
      [] th.pc = ClearModules -> Ran(th, [E EXCEPT !.sys_modules = EmptyMap])
      [] th.pc = SetMetaPath -> Ran(th, [E EXCEPT !.meta_path = <<th.mf>>])
      [] th.pc = SetImport -> Ran(th, [E EXCEPT !.import_ = XocImportFn(th.mf)])
      [] th.pc = Warnings ->
            WarningsRan(th, WarningsChecked(th.mf, NoSaved, E,
                                Contains(th.mf.mapper, "warnings", E.old, 0)))
      [] th.pc = Body -> Ran(th, E)
      [] th.pc = RestoreMetaPath -> Ran(th, [E EXCEPT !.meta_path = th.oldMetaPath])
      [] th.pc = RestorePathHooks -> Ran(th, [E EXCEPT !.path_hooks = th.oldPathHooks])
      [] th.pc = RestoreClear -> Ran(th, [E EXCEPT !.sys_modules = EmptyMap])
      [] th.pc = RestoreUpdate -> Ran(th, [E EXCEPT !.sys_modules = Update(@, E.old)])
      [] th.pc = RestoreImport -> Ran(th, [E EXCEPT !.import_ = RestoredImport(th)])

\* the last statement run: by which thread, at which position
Statement(t, pc) == [NoLast EXCEPT !.ev = "statement", !.who = t, !.name = pc]

\* thread t calls load(maker, mapper): mf = MakerFinder(__builtin__.__import__,
\* mapper), then _isolateImports(mf, ...) begins.  The call races with every
\* call that is running in another thread.
ThreadLoad(t, mp) ==
    /\ threads[t].pc = 0
    /\ threads' =
          [u \in Threads |->
              IF u = t
              THEN [ThreadIdle EXCEPT !.pc = SaveMetaPath,
                                      !.mf = MakerFinder(builtin_import, mp),
                                      !.raced = \E v \in Threads : Running(threads[v])]
              ELSE [threads[u] EXCEPT !.raced = @ \/ Running(threads[u])]]
    /\ last' = Statement(t, 0)
    /\ UNCHANGED <<oldSysModules, gvars, stack, heap, returned, nops, mvars,
                   plugins, disk, cache, nretr, pres>>

\* thread t has run its next statement, with the result r
Stepped(t, r) ==
    /\ SetEnv(r.env)
    /\ threads' = [threads EXCEPT ![t] = r.th]

\* the interpreter runs the next statement of thread t
ThreadStep(t) ==
    /\ Running(threads[t])
    /\ Stepped(t, Exec(threads[t], Env))
    /\ last' = Statement(t, threads[t].pc)
    /\ UNCHANGED <<stack, heap, returned, nops, mvars,
                   plugins, disk, cache, nretr, pres>>

ThreadsNext ==
    \/ \E t \in Threads, mp \in ThreadMappers : ThreadLoad(t, mp)
    \/ \E t \in Threads : ThreadStep(t)

SpecThreads == IsoInit /\ [][ThreadsNext]_vars

-----------------------------------------------------------------------------
(* Imports answered by a mapper whose lookup raises *)

\* a mapper whose callable raises KeyError for 'sys' and 'os' and ImportError
\* for 'os.path'
raisingMapper ==
    CallableMapper([n \in {"sys", "os", "os.path"} |->
                       IF n = "os.path" THEN "ImportError" ELSE "KeyError"])
RaisingMappers == {dictMapper, raisingMapper, brokenMapper}

RaisingNext ==
    \/ \E n \in ImportNames : ImportStmt(n)
    \/ \E u \in Units, mp \in RaisingMappers : Load(u, mp, 0)
    \/ LoadReturn
    \/ LoadRaise
    \/ \E i \in DOMAIN heap : CallLoaded(i)
    \/ CallExit

SpecRaising == IsoInit /\ [][RaisingNext]_vars

-----------------------------------------------------------------------------
(* Plugins (src/bravo_plugin.py): dicts of plugins, edges, sorting *)

\* names are strings: sequences of characters
PluginNames == {<<"a">>, <<"b">>, <<"c">>}

\* a plugin object with the attributes of ISortedPlugin
Plugin(name, before, after) == [name |-> name, before |-> before, after |-> after]

Range(s) == {s[i] : i \in DOMAIN s}
Perms(S) == {s \in [1..Cardinality(S) -> S] : \A i, j \in DOMAIN s : i # j => s[i] # s[j]}

\* Python iterates a set or a dict in an order fixed by the hashes of its
\* elements: `order` is that order, some arrangement of every name
HashOrders == Perms(PluginNames)
Iterate(S, order) == SelectSeq(order, LAMBDA x : x \in S)

\* for edge in list(plugin.before): mirror it into d[edge].after, or discard it
MirrorBefore(dd, name) ==
    [n \in DOMAIN dd |->
        [dd[n] EXCEPT !.after = IF n \in dd[name].before THEN @ \cup {name} ELSE @,
                      !.before = IF n = name THEN @ \cap DOMAIN dd ELSE @]]
\* for edge in list(plugin.after): mirror it into d[edge].before, or discard it
MirrorAfter(dd, name) ==
    [n \in DOMAIN dd |->
        [dd[n] EXCEPT !.before = IF n \in dd[name].after THEN @ \cup {name} ELSE @,
                      !.after = IF n = name THEN @ \cap DOMAIN dd ELSE @]]
\* a loop body that mirrors the before set only
MirrorBeforeOnly(dd, name) == MirrorBefore(dd, name)
MirrorPlugin(dd, name) == MirrorAfter(MirrorBefore(dd, name), name)

RECURSIVE AddEdgesLoop(_, _)
AddEdgesLoop(dd, keys) ==
    IF keys = <<>> THEN dd
    ELSE AddEdgesLoop(MirrorPlugin(dd, Head(keys)), Tail(keys))

\* add_plugin_edges(d), d.iteritems() running in the order `order`
add_plugin_edges(dd, order) == AddEdgesLoop(dd, Iterate(DOMAIN dd, order))

\* dict((plugin.name, plugin) for plugin in plugins): a later plugin replaces
\* an earlier one of the same name
RECURSIVE DictOf(_)
DictOf(ps) ==
    IF ps = <<>> THEN EmptyMap
    ELSE LET p == ps[Len(ps)]
             rest == DictOf(SubSeq(ps, 1, Len(ps) - 1))
         IN [n \in DOMAIN rest \cup {p.name} |-> IF n = p.name THEN p ELSE rest[n]]

\* the state of a sort: the list l and whether the recursion failed to end
Sorting(l, err) == [l |-> l, err |-> err]
\* a visit that appends the plugin without visiting its before set
visitShallow(plugin, l, path, dd, order) ==
    IF plugin \in Range(l) THEN Sorting(l, FALSE) ELSE Sorting(Append(l, plugin), FALSE)
Appended(r, plugin) == IF r.err THEN r ELSE Sorting(Append(r.l, plugin), FALSE)

\* visit(plugin), called with the visits in `path` still in progress: a
\* plugin met again while its own visit is in progress is not in l yet, so
\* the recursion repeats until the interpreter's recursion limit ends it
RECURSIVE visit(_, _, _, _, _)
RECURSIVE VisitEach(_, _, _, _, _)
VisitNext(r, names, path, dd, order) ==
    IF r.err THEN r ELSE VisitEach(Tail(names), r.l, path, dd, order)
VisitEach(names, l, path, dd, order) ==
    IF names = <<>> THEN Sorting(l, FALSE)
    ELSE VisitNext(visit(dd[Head(names)], l, path, dd, order), names, path, dd, order)
visit(plugin, l, path, dd, order) ==
    IF plugin \in Range(l) THEN Sorting(l, FALSE)
    ELSE IF plugin \in path THEN Sorting(l, TRUE)
    ELSE Appended(VisitEach(Iterate(plugin.before \cap DOMAIN dd, order), l,
                            path \cup {plugin}, dd, order), plugin)

\* for plugin in plugins: visit it unless it names a plugin of d in after
RECURSIVE SortLoop(_, _, _, _)
SortNext(r, ps, dd, order) == IF r.err THEN r ELSE SortLoop(Tail(ps), r.l, dd, order)
SortLoop(ps, l, dd, order) ==
    IF ps = <<>> THEN Sorting(l, FALSE)
    ELSE IF Head(ps).after \cap DOMAIN dd # {} THEN SortLoop(Tail(ps), l, dd, order)
    ELSE SortNext(visit(Head(ps), l, {}, dd, order), ps, dd, order)

\* sort_plugins(plugins): the list l, or the RuntimeError of a recursion
\* that does not end
Reversed(s) == [i \in DOMAIN s |-> s[Len(s) + 1 - i]]
\* a sort that emits a plugin ahead of the plugins of its before set
SortOutcomeReversed(r) ==
    IF r.err THEN PRaise("RuntimeError", "maximum recursion depth exceeded")
    ELSE POk(Reversed([i \in DOMAIN r.l |-> r.l[i].name]))
SortOutcome(r) ==
    IF r.err THEN PRaise("RuntimeError", "maximum recursion depth exceeded")
    ELSE POk([i \in DOMAIN r.l |-> r.l[i].name])
sort_plugins(ps, order) == SortOutcome(SortLoop(ps, <<>>, DictOf(ps), order))

-----------------------------------------------------------------------------
(* The dicts of plugins the checks range over *)

\* sets of at most k elements of S
RECURSIVE KSubsets(_, _)
Grown(prev, S) == prev \cup {e \cup {x} : e \in prev, x \in S}
KSubsets(S, k) == IF k = 0 THEN {{}} ELSE Grown(KSubsets(S, k - 1), S)

\* the names a plugin may declare in before or after
DeclaredEdges(S) == S \X {"before", "after"} \X PluginNames
Declared(E, n, attr) == {e[3] : e \in {x \in E : x[1] = n /\ x[2] = attr}}
DictFrom(S, E) == [n \in S |-> Plugin(n, Declared(E, n, "before"), Declared(E, n, "after"))]
PluginDicts ==
    UNION {{DictFrom(S, E) : E \in KSubsets(DeclaredEdges(S), MaxEdges)} : S \in SUBSET PluginNames}

\* lists of distinct plugins of dd
PluginLists(dd) ==
    UNION {{[i \in DOMAIN s |-> dd[s[i]]] : s \in Perms(S)} : S \in SUBSET DOMAIN dd}

PRes(op, names, out, was) ==
    [NoPRes EXCEPT !.op = op, !.names = names, !.out = out, !.was = was]

SortingInit ==
    /\ plugins \in PluginDicts
    /\ RegistryIdle
    /\ ExocetIdle

\* d = add_plugin_edges(d)
AddPluginEdges ==
    /\ \E order \in HashOrders :
          plugins' = add_plugin_edges(plugins, order)
    /\ pres' = PRes("edges", <<>>, POk(<<>>), plugins)
    /\ UNCHANGED <<disk, cache, nretr, mvars, oldSysModules, gvars, pvars, threads>>

\* sort_plugins(l) for a list l of plugins of d
SortPlugins ==
    /\ \E ps \in PluginLists(plugins), order \in HashOrders :
          pres' = PRes("sort", [i \in DOMAIN ps |-> ps[i].name],
                       sort_plugins(ps, order), plugins)
    /\ UNCHANGED <<plugins, disk, cache, nretr, mvars, oldSysModules, gvars, pvars, threads>>

SortingNext == AddPluginEdges \/ SortPlugins
SpecSorting == SortingInit /\ [][SortingNext]_vars

-----------------------------------------------------------------------------
(* Name lists: expand_names *)

Star == <<"*">>
\* "-" followed by a name
Minus(name) == <<"-">> \o name
\* names that no plugin bears
StrayNames == {<<"x">>}
AllNames == PluginNames \cup StrayNames
\* the orders in which a set of names may be iterated
NameOrders == Perms(AllNames)

Parts(wildcard, exceptions, expanded) ==
    [wildcard |-> wildcard, exceptions |-> exceptions, expanded |-> expanded]
\* a loop body that strikes a "-" name from the names expanded so far
PartitionInOrder(parts, name) ==
    IF name = Star THEN [parts EXCEPT !.wildcard = TRUE]
    ELSE IF name # <<>> /\ Head(name) = "-"
         THEN [parts EXCEPT !.expanded = @ \ {Tail(name)}]
    ELSE [parts EXCEPT !.expanded = @ \cup {name}]
\* the body of `for name in names`
Partition(parts, name) ==
    IF name = Star THEN [parts EXCEPT !.wildcard = TRUE]
    ELSE IF name # <<>> /\ Head(name) = "-"
         THEN [parts EXCEPT !.exceptions = @ \cup {Tail(name)}]
    ELSE [parts EXCEPT !.expanded = @ \cup {name}]
RECURSIVE PartitionLoop(_, _)
PartitionLoop(parts, names) ==
    IF names = <<>> THEN parts
    ELSE PartitionLoop(Partition(parts, Head(names)), Tail(names))
\* expanded.update(plugins.keys()) if wildcard; expanded - exceptions
Expanded(parts, keys) ==
    (parts.expanded \cup (IF parts.wildcard THEN keys ELSE {})) \ parts.exceptions
\* expand_names(plugins, names): list(...) of a set runs in the order `order`
expand_names(dd, names, order) ==
    Iterate(Expanded(PartitionLoop(Parts(FALSE, {}, {}), names), DOMAIN dd), order)

\* the tokens of a name list
Tokens == {Star, <<"a">>, <<"b">>, Minus(<<"b">>)} \cup StrayNames \cup {Minus(n) : n \in StrayNames}
RECURSIVE ListsUpTo(_, _)
Longer(prev, S) == prev \cup {Append(s, x) : s \in prev, x \in S}
ListsUpTo(S, k) == IF k = 0 THEN {<<>>} ELSE Longer(ListsUpTo(S, k - 1), S)
TokenLists == ListsUpTo(Tokens, MaxTokens)
\* dicts of plugins without edges
PlainDicts == {DictFrom(S, {}) : S \in SUBSET PluginNames}

\* a dict of plugins and a name list to expand
NamesInit ==
    /\ plugins \in PlainDicts
    /\ disk = EmptyMap
    /\ cache = EmptyMap
    /\ nretr = 0
    /\ \E names \in TokenLists : pres = PRes("none", names, POk(<<>>), EmptyMap)
    /\ ExocetIdle

\* names = expand_names(plugins, names)
ExpandNames ==
    /\ \E order \in NameOrders :
          pres' = PRes("expand", pres.names, POk(expand_names(plugins, pres.names, order)), plugins)
    /\ UNCHANGED <<plugins, disk, cache, nretr, mvars, oldSysModules, gvars, pvars, threads>>

NamesNext == ExpandNames
SpecNames == NamesInit /\ [][NamesNext]_vars

-----------------------------------------------------------------------------
(* The registry: get_plugins, verify_plugin, retrieve_* and __cache *)

IBravoPlugin == "IBravoPlugin"
ISortedPlugin == "ISortedPlugin"
Interfaces == {IBravoPlugin, ISortedPlugin}
\* issubclass(interface, ISortedPlugin)
IsSorted(iface) == iface = ISortedPlugin

\* a unit of the package whose value is adapted and yielded: ok says whether
\* verifyObject accepts the object
Candidate(name, before, after, ok) ==
    [name |-> name, before |-> before, after |-> after, ok |-> ok, fault |-> "none"]
\* a unit whose code raises the exception `fault` when it is loaded, or
\* (fault "adapt") whose value raises when the interface adapts it
Faulty(fault) ==
    [name |-> <<>>, before |-> {}, after |-> {}, ok |-> FALSE, fault |-> fault]

\* a verification that rejects nothing
VerifyAnything(iface, p) == TRUE
\* sorted_invariant(s)
sorted_invariant(p) == p.before \cap p.after = {}
\* verify_plugin(interface, plugin) returns the plugin rather than raising
verify_plugin(iface, p) == p.ok /\ (IsSorted(iface) => sorted_invariant(p))

\* the exceptions get_plugins catches around load(pm, mapper)
CaughtByScan == {"ImportError", "SyntaxError"}
\* what the generator yielded, and the exception that ended it (if any)
Scanned(objs, err) == [objs |-> objs, err |-> err]
\* for pm in ...iterModules(): load it, adapt its values, yield the adapted
RECURSIVE ScanLoop(_, _)
ScanLoop(units, objs) ==
    IF units = <<>> THEN Scanned(objs, POk(<<>>))
    ELSE IF Head(units).fault = "none"
         THEN ScanLoop(Tail(units), Append(objs, Head(units)))
    ELSE IF Head(units).fault = "adapt" \/ Head(units).fault \in CaughtByScan
         THEN ScanLoop(Tail(units), objs)
    ELSE Scanned(objs, PRaise(Head(units).fault, <<>>))
\* get_plugins(interface, "bravo.plugins", parameters)
get_plugins(iface) == ScanLoop(disk[iface], <<>>)

\* d[p.name] = p for every candidate that verifies, in the order found
RECURSIVE Collect(_, _, _)
\* a store that keeps the entry a key already has
PutNew(dd, k, v) == [n \in DOMAIN dd \cup {k} |-> IF n \in DOMAIN dd THEN dd[n] ELSE v]
Put(dd, k, v) == [n \in DOMAIN dd \cup {k} |-> IF n = k THEN v ELSE dd[n]]
Collect(iface, ps, dd) ==
    IF ps = <<>> THEN dd
    ELSE IF verify_plugin(iface, Head(ps))
         THEN Collect(iface, Tail(ps),
                      Put(dd, Head(ps).name, Plugin(Head(ps).name, Head(ps).before, Head(ps).after)))
    ELSE Collect(iface, Tail(ps), dd)

\* the discovery of retrieve_plugins: scan, verify, mirror the edges
Mirrored(iface, dd, order) == IF IsSorted(iface) THEN add_plugin_edges(dd, order) ELSE dd
Discovered(iface, order) ==
    Mirrored(iface, Collect(iface, get_plugins(iface).objs, EmptyMap), order)

Retrieved(dd, hit) == [d |-> dd, hit |-> hit, err |-> POk(<<>>)]
\* the exception that ended the scan leaves retrieve_plugins
Aborted(err) == [d |-> EmptyMap, hit |-> FALSE, err |-> err]
\* the discovery of retrieve_plugins, s being what get_plugins did
Discovery(iface, order, s) ==
    IF s.err.kind # "ok" THEN Aborted(s.err)
    ELSE Retrieved(Discovered(iface, order), FALSE)
\* a retrieve_plugins that never consults __cache
retrieve_plugins_uncached(iface, params, order) ==
    Discovery(iface, order, get_plugins(iface))
\* retrieve_plugins(interface, parameters): the dict and whether it came
\* from __cache
retrieve_plugins(iface, params, order) ==
    IF ~params /\ iface \in DOMAIN cache THEN Retrieved(cache[iface], TRUE)
    ELSE Discovery(iface, order, get_plugins(iface))
\* if not parameters: __cache[interface] = d
CacheAfter(iface, params, r) ==
    IF ~params /\ ~r.hit /\ r.err.kind = "ok" THEN Put(cache, iface, r.d) ELSE cache

\* a lookup that leaves out the names that are not keys of d
NamedPartial(dd, names, iface) == POk(SelectSeq(names, LAMBDA n : n \in DOMAIN dd))
\* [d[name] for name in names], or the PluginException made of the KeyError
Missing(dd, names) == {i \in DOMAIN names : names[i] \notin DOMAIN dd}
FirstMissing(dd, names) == names[CHOOSE i \in Missing(dd, names) : \A j \in Missing(dd, names) : i <= j]
Named(dd, names, iface) ==
    IF Missing(dd, names) # {}
    THEN PRaise("PluginException", <<FirstMissing(dd, names), iface>>)
    ELSE POk(names)
\* retrieve_named_plugins after d = retrieve_plugins(...)
retrieve_named_plugins(dd, names, iface, order) ==
    Named(dd, expand_names(dd, names, order), iface)
\* retrieve_sorted_plugins after l = retrieve_named_plugins(...)
SortedOutcome(l, dd, order) ==
    IF l.kind # "ok" THEN l
    ELSE sort_plugins([i \in DOMAIN l.val |-> dd[l.val[i]]], order)
retrieve_sorted_plugins(dd, names, iface, order) ==
    SortedOutcome(retrieve_named_plugins(dd, names, iface, order), dd, order)

\* what a scan may find: nothing, two plugins without edges, or two plugins
\* with an edge and an object that fails sorted_invariant
NoCandidates == <<>>
TwoPlain == <<Candidate(<<"a">>, {}, {}, TRUE), Candidate(<<"b">>, {}, {}, TRUE)>>
TwoOrdered ==
    <<Candidate(<<"b">>, {<<"a">>}, {}, TRUE), Candidate(<<"a">>, {}, {}, TRUE),
      Candidate(<<"c">>, {<<"a">>}, {<<"a">>}, TRUE)>>
Worlds(iface) == IF IsSorted(iface) THEN {TwoPlain, TwoOrdered} ELSE {NoCandidates, TwoPlain}
Disks == {dk \in [Interfaces -> {NoCandidates, TwoPlain, TwoOrdered}] :
             \A iface \in Interfaces : dk[iface] \in Worlds(iface)}
\* the name lists a caller asks for: distinct names, of which "c" is the name
\* of no plugin that verifies and "a" and "b" depend on what is on disk
RequestTokens == PluginNames
Requests == UNION {Perms(S) : S \in SUBSET RequestTokens}

\* what the caller gets: the exception of the scan, or the value out
Outcome(r, out) == IF r.err.kind = "ok" THEN out ELSE r.err
RetrieveRes(op, iface, params, out, r) ==
    [op |-> op, iface |-> iface, names |-> pres.names, params |-> params,
     out |-> Outcome(r, out), was |-> disk[iface], hit |-> r.hit, scanned |-> ~r.hit]

\* the plugins on disk and the name list of the configuration
RegistryInit ==
    /\ plugins = EmptyMap
    /\ disk \in Disks
    /\ cache = EmptyMap
    /\ nretr = 0
    /\ \E names \in Requests : pres = PRes("none", names, POk(<<>>), EmptyMap)
    /\ ExocetIdle

Retrieves(iface, params, r, op, out) ==
    /\ plugins' = r.d
    /\ cache' = CacheAfter(iface, params, r)
    /\ pres' = RetrieveRes(op, iface, params, out, r)
    /\ nretr' = nretr + 1
    /\ UNCHANGED <<disk, mvars, oldSysModules, gvars, pvars, threads>>

\* retrieve_plugins(interface, parameters)
RetrievedPlugins(iface, params, r) ==
    Retrieves(iface, params, r, "retrieve_plugins", POk(r.d))
RetrievePlugins(iface, params) ==
    /\ nretr < MaxRetrievals
    /\ \E order \in HashOrders :
          RetrievedPlugins(iface, params, retrieve_plugins(iface, params, order))

\* retrieve_named_plugins(interface, names, parameters)
RetrievedNamed(iface, params, r, order) ==
    Retrieves(iface, params, r, "retrieve_named_plugins",
              retrieve_named_plugins(r.d, pres.names, iface, order))
RetrieveNamedPlugins(iface, params) ==
    /\ nretr < MaxRetrievals
    /\ \E order \in HashOrders :
          RetrievedNamed(iface, params, retrieve_plugins(iface, params, order), order)

\* retrieve_sorted_plugins(interface, names, parameters)
RetrievedSorted(iface, params, r, order) ==
    Retrieves(iface, params, r, "retrieve_sorted_plugins",
              retrieve_sorted_plugins(r.d, pres.names, iface, order))
RetrieveSortedPlugins(iface, params) ==
    /\ nretr < MaxRetrievals
    /\ \E order \in HashOrders :
          RetrievedSorted(iface, params, retrieve_plugins(iface, params, order), order)

\* plugin files are added to, changed in or removed from bravo.plugins
DiskChange(iface, w) ==
    /\ disk[iface] # w
    /\ disk' = [disk EXCEPT ![iface] = w]
    /\ UNCHANGED <<plugins, cache, nretr, pres, mvars, oldSysModules, gvars, pvars, threads>>

RegistryNext ==
    \/ \E iface \in Interfaces, params \in BOOLEAN : RetrievePlugins(iface, params)
    \/ \E iface \in Interfaces, params \in BOOLEAN : RetrieveNamedPlugins(iface, params)
    \/ \E iface \in Interfaces, params \in BOOLEAN : RetrieveSortedPlugins(iface, params)
    \/ \E iface \in Interfaces : \E w \in Worlds(iface) : DiskChange(iface, w)
SpecRegistry == RegistryInit /\ [][RegistryNext]_vars

-----------------------------------------------------------------------------
(* Scans of a package with faulty units, rejected and homonymous objects *)

\* the units a package may hold: plugins "a" and "b", a second plugin named
\* "a" that wants "b" before it, an object verifyObject rejects, an object
\* that names "a" in before and in after, and units that fail
ScanItems ==
    { Candidate(<<"a">>, {}, {}, TRUE),
      Candidate(<<"a">>, {<<"b">>}, {}, TRUE),
      Candidate(<<"b">>, {}, {}, TRUE),
      Candidate(<<"b">>, {}, {}, FALSE),
      Candidate(<<"c">>, {<<"a">>}, {<<"a">>}, TRUE),
      Faulty("ImportError"), Faulty("SyntaxError"), Faulty("ZeroDivisionError"),
      Faulty("adapt") }
Packages == ListsUpTo(ScanItems, MaxUnits)

\* the package bravo.plugins as it is on disk
ScanInit ==
    /\ plugins = EmptyMap
    /\ \E units \in Packages : disk = [iface \in Interfaces |-> units]
    /\ cache = EmptyMap
    /\ nretr = 0
    /\ pres = NoPRes
    /\ ExocetIdle

ScanNext == \E iface \in Interfaces, params \in BOOLEAN : RetrievePlugins(iface, params)
SpecScan == ScanInit /\ [][ScanNext]_vars

-----------------------------------------------------------------------------
(* Properties of the mapper algebra *)

\* the last call was op on the current mapper
Asked(op) == res.op = op

\* the leaf callable broke the callable contract (raised something that is
\* no ImportError) during the last call
CallableBroke == res.out.kind = "Error" /\ res.out.by = "callable"

\* the calls the receiver itself made on other mappers, in order
DirectCalls == SelectSeq(res.log, LAMBDA c : c.lvl = 1)

\* what a lookup of the same name on mapper m gives from the same state
LookupOut(m) == Lookup(m, res.name, res.pre, 0).out

\* C7: for every mapper base and every dict m, base.withOverrides(m).lookup(name)
\* returns m[name] and contains(name) is true whenever name is a key of m,
\* whatever base would return; for a name not in m the result is exactly what
\* base.lookup(name) gives.
C7_OverridePrecedence ==
    novr >= 1 =>
        /\ (Asked("lookup") /\ res.name \in DOMAIN ovr) => res.out = Ok(ovr[res.name])
        /\ (Asked("contains") /\ res.name \in DOMAIN ovr) => res.out = Ok("True")
        /\ (Asked("lookup") /\ res.name \notin DOMAIN ovr) => res.out = LookupOut(base)

\* C7 witness: an ExclusiveMapper that excludes "sys" was overridden with a dict
\* holding "sys", and "sys" was looked up
C7_Witness ==
    /\ novr = 1
    /\ base.kind = "ExclusiveMapper"
    /\ "sys" \in base.excluded
    /\ Asked("lookup")
    /\ res.name = "sys"
    /\ "sys" \in DOMAIN ovr
    /\ res.out = Ok(ovr["sys"])
    /\ LookupOut(base).kind = "ImportError"

\* C8: for every name in an ExclusiveMapper's exclusion set lookup fails with
\* ImportError and contains returns false, even when the wrapped mapper would
\* resolve the name, and the wrapped mapper is not consulted for that name
\* (neither by the receiver nor by an ExclusiveMapper nested inside it).
C8_ExclusionWins ==
    /\ (mapper.kind = "ExclusiveMapper" /\ res.name \in mapper.excluded) =>
          /\ Asked("lookup") => res.out = ImportErr(res.name, "ExclusiveMapper")
          /\ Asked("contains") => res.out = Ok("False")
          /\ res.log = <<>>
    /\ \A i \in 1..Len(res.log) :
          (res.log[i].m.kind = "ExclusiveMapper" /\ res.name \in res.log[i].m.excluded)
              => (i = Len(res.log) \/ res.log[i + 1].lvl <= res.log[i].lvl)

\* C8 witness: contains of an excluded name that the wrapped mapper resolves
C8_Witness ==
    /\ mapper.kind = "ExclusiveMapper"
    /\ res.name \in mapper.excluded
    /\ Asked("contains")
    /\ res.out = Ok("False")
    /\ LookupOut(mapper.subs[1]).kind = "ok"

\* C9: for every mapper variant and composition and every name (the callables
\* keeping to their contract of returning or raising ImportError), contains
\* returns true exactly when lookup returns a target and false exactly when
\* lookup fails.
C9_ContainsIffLookup ==
    (Asked("contains") /\ ~CallableBroke) =>
        /\ res.out \in {Ok("True"), Ok("False")}
        /\ (res.out = Ok("True")) <=> (LookupOut(mapper).kind = "ok")

\* the first sub-mapper (1-based) whose lookup does not raise ImportError, or
\* one past the end
FirstNonImportError(subs) ==
    LET hits == {i \in 1..Len(subs) :
                    Lookup(subs[i], res.name, res.pre, 1).out.kind # "ImportError"}
    IN  IF hits = {} THEN Len(subs) + 1
        ELSE CHOOSE i \in hits : \A j \in hits : i <= j

\* C10: _StackedMapper.lookup consults its sub-mappers strictly in list order and
\* returns the first success without consulting a later one; for every list of
\* sub-mappers, if none succeeds lookup fails with ImportError for the requested
\* name and contains returns false.
C10_StackedOrderAndFailure ==
    (mapper.kind = "_StackedMapper" /\ res.op # "none" /\ ~CallableBroke) =>
        LET k == FirstNonImportError(mapper.subs)
            n == IF k > Len(mapper.subs) THEN Len(mapper.subs) ELSE k
        IN  /\ Len(DirectCalls) = n
            /\ \A i \in 1..n : DirectCalls[i].m = mapper.subs[i]
            /\ (k > Len(mapper.subs)) =>
                  /\ Asked("lookup") =>
                        (res.out.kind = "ImportError" /\ res.out.val = res.name)
                  /\ Asked("contains") => res.out = Ok("False")

\* the ordering half of C10 alone
StackedConsultsInOrder ==
    (mapper.kind = "_StackedMapper" /\ res.op # "none") =>
        LET k == FirstNonImportError(mapper.subs)
            n == IF k > Len(mapper.subs) THEN Len(mapper.subs) ELSE k
        IN  /\ Len(DirectCalls) = n
            /\ \A i \in 1..n : DirectCalls[i].m = mapper.subs[i]
            /\ (k <= Len(mapper.subs)) =>
                  res.out.kind = (IF Asked("lookup") THEN LookupOut(mapper.subs[k]).kind
                                  ELSE IF LookupOut(mapper.subs[k]).kind = "ok"
                                       THEN "ok" ELSE "Error")

\* C11: withOverrides leaves its receiver as it was: after r2 =
\* r.withOverrides(m), r2 is the stacked mapper [DictMapper(m), r], lookup and
\* contains on r give for every name what they gave on r before the call, and
\* when a name is a key of the last two override dicts applied, lookup
\* returns the value of the one applied last.
C11_OverridesLeaveReceiver ==
    novr >= 1 =>
        /\ mapper = StackedMapper(<<DictMapper(ovr), base>>)
        /\ \A n \in Names :
              /\ Lookup(base, n, oldSysModules, 0)
                    = Lookup(mapper.subs[2], n, oldSysModules, 0)
              /\ Contains(base, n, oldSysModules, 0)
                    = Contains(mapper.subs[2], n, oldSysModules, 0)
        /\ (/\ novr >= 2
            /\ Asked("lookup")
            /\ res.name \in DOMAIN ovr
            /\ res.name \in DOMAIN base.subs[1].tab)
              => res.out = Ok(ovr[res.name])

\* C11 witness: a DictMapper holding "sys" was overridden with "sys" -> t2, the
\* result again with "sys" -> t4, and the lookup of "sys" gave t4
C11_Witness ==
    /\ novr = 2
    /\ base.subs[2].kind = "DictMapper"
    /\ "sys" \in DOMAIN base.subs[2].tab
    /\ base.subs[1].tab = [n \in {"sys"} |-> "t2"]
    /\ "sys" \in DOMAIN ovr
    /\ Asked("lookup")
    /\ res.name = "sys"
    /\ res.out = Ok("t4")

-----------------------------------------------------------------------------
(* Properties of the import isolation *)

\* the last step left an _isolateImports call through `return` or an exception
\* of the function it ran
LeftIsolation == last.exit.how \in {"return", "raise"}
\* every _isolateImports call begun under an active frame put its state back
CleanStack == \A i \in DOMAIN stack : ~stack[i].dirty
\* no _isolateImports call is active
NoIsolationActive == \A i \in DOMAIN stack : stack[i].kind # "iso"
\* the last step was an import statement run by code of kind who
ImportedBy(who) == last.ev = "import" /\ last.who = who

\* what the special case of load_module leaves in sys.modules for name when the
\* mapper m supplied its parent package
SpecialCased(m, name, old) ==
    {GetAttr(Lookup(m, p, old, 0).out.val, p, name) :
        p \in {q \in DOMAIN SysModulesSpecialCases :
                    /\ name \in SysModulesSpecialCases[q]
                    /\ Lookup(m, q, old, 0).out.kind = "ok"}}

\* the outcome out of importing name is the answer of mapper m: the value m
\* looks up (or the attribute of the parent m looked up), else an ImportError
AnsweredBy(m, name, out, old) ==
    \/ out.kind = "ok" /\ out = LookupWithMapper(m, name, old).out
    \/ out.kind = "ok" /\ out.val \in SpecialCased(m, name, old) \ {"None"}
    \/ /\ out.kind = "ImportError"
       /\ \/ LookupWithMapper(m, name, old).out.kind = "ImportError"
          \/ "None" \in SpecialCased(m, name, old)

\* C1: after a top-level _isolateImports call (none active around it, none
\* started inside it) that its function left by returning or by raising,
\* sys.meta_path, sys.path_hooks, the contents of sys.modules and __import__
\* are what they were just before the call.
C1_TopLevelRestores ==
    (LeftIsolation /\ NoIsolationActive /\ ~last.exit.nested)
        => last.exit.post = last.exit.pre

\* C2: _isolateImports calls nest in LIFO order: when a call made inside
\* another one is left, the state is what it was just before that inner call,
\* and when a call that had inner calls is left, the state is what it was
\* before that outer call began (inner calls that the mapper broke while they
\* installed their state are C3's case and set aside here).
C2_NestedLIFO ==
    (/\ LeftIsolation
     /\ ~last.exit.dirty
     /\ CleanStack
     /\ last.exit.nested \/ ~NoIsolationActive)
        => last.exit.post = last.exit.pre

\* C3: when the mapper raises while _isolateImports installs the isolated
\* state (contains('warnings') or lookup('warnings') raising), the state the
\* caller sees with the exception is the state from before the call.
C3_RestoredWhenMapperRaises ==
    last.exit.how = "mapper_error" => last.exit.post = last.exit.pre

\* C4: every import statement run by a unit's top-level code during load is
\* answered by the mapper of that load: with the mapper's value for the name,
\* and with ImportError when the mapper has none - never with a module of the
\* ambient mechanism or of the host's sys.modules (loads in which an inner
\* call was broken by its mapper, C3's case, are set aside here).
C4_UnitImportsAnsweredByMapper ==
    (ImportedBy("unit") /\ CleanStack) => AnsweredBy(last.via, last.name, last.out, oldSysModules)

\* C5: an import statement run inside a function of a loaded module, called
\* after its load returned, is answered by the mapper the module was loaded
\* with - also when the call is made while another loaded function runs, and
\* after such an inner call has returned (calls during which a load was broken
\* by its mapper, C3's case, are set aside here).
C5_LocalImportsUseOwnMapper ==
    (ImportedBy("call") /\ NoIsolationActive /\ CleanStack)
        => AnsweredBy(last.via, last.name, last.out, oldSysModules)

\* two different completed loads of one unit with Python source
TwoLoads ==
    {p \in (DOMAIN returned) \X (DOMAIN returned) :
        /\ p[1] < p[2]
        /\ returned[p[1]].unit = returned[p[2]].unit
        /\ ~returned[p[1]].native
        /\ ~returned[p[2]].native}
\* the loads that were not handed an existing module object m
Fresh(k) == ~returned[k].m
\* the heap index of the module a load returned
ObjOf(k) == CHOOSE i \in DOMAIN heap : ModRef(i) = returned[k].obj
\* the values of sys.modules
Cached == {sys_modules[n] : n \in DOMAIN sys_modules}
\* a step that changes an attribute of module i changes no other module's
OneModuleWritten ==
    \A i, j \in DOMAIN heap :
        (i # j /\ heap'[i].attr # heap[i].attr) => heap'[j].attr = heap[j].attr

\* C6 as stated, for units with Python source: any two loads of one unit
\* return two distinct module objects, and no returned module object is a
\* value of sys.modules.
C6_AnyTwoLoadsDistinct ==
    /\ \A p \in TwoLoads : returned[p[1]].obj # returned[p[2]].obj
    /\ \A k \in DOMAIN returned : ~returned[k].native => returned[k].obj \notin Cached

\* C6 (amended): two loads of one unit with Python source, neither handed an
\* existing module object m, return two distinct module objects; setting an
\* attribute of one module object changes no other; and no module object
\* returned by such a load is a value of sys.modules.
C6_FreshLoadsDistinct ==
    /\ [](/\ \A p \in TwoLoads :
                (Fresh(p[1]) /\ Fresh(p[2])) => returned[p[1]].obj # returned[p[2]].obj
          /\ \A k \in DOMAIN returned :
                (Fresh(k) /\ ~returned[k].native) => returned[k].obj \notin Cached)
    /\ [][OneModuleWritten]_vars

\* C6 witness: the unit was loaded twice without m, the host set testAttribute
\* on the first module only, and the second still lacks it
C6_Witness ==
    \E p \in TwoLoads :
        /\ Fresh(p[1]) /\ Fresh(p[2])
        /\ heap[ObjOf(p[1])].attr = "a value"
        /\ heap[ObjOf(p[2])].attr = "unset"

-----------------------------------------------------------------------------
(* Properties of the plugin edges and the sort *)

A == <<"a">>
B == <<"b">>
C == <<"c">>

EdgesAdded == pres.op = "edges"
Sorted == pres.op = "sort"
\* the plugins handed to the last sort_plugins call, as a set of names
SortInput == Range(pres.names)
\* where a name stands in the list a call returned
Pos(name) == CHOOSE i \in DOMAIN pres.out.val : pres.out.val[i] = name
Precedes(n, m) ==
    /\ n \in Range(pres.out.val)
    /\ m \in Range(pres.out.val)
    /\ Pos(n) < Pos(m)

\* C12: after add_plugin_edges(d), Q is in P.before exactly when P is in
\* Q.after, for all plugins P and Q of d; B.after contains A whenever
\* A.before contained B; every name left in a before or after set is a key
\* of d; the keys of d are unchanged
C12_EdgesMirrored ==
    EdgesAdded =>
        /\ DOMAIN plugins = DOMAIN pres.was
        /\ \A P, Q \in DOMAIN plugins :
              /\ Q \in plugins[P].before <=> P \in plugins[Q].after
              /\ Q \in pres.was[P].before => P \in plugins[Q].after
              /\ Q \in pres.was[P].after => P \in plugins[Q].before
        /\ \A P \in DOMAIN plugins :
              /\ plugins[P].name = P
              /\ plugins[P].before \cup plugins[P].after \subseteq DOMAIN plugins

\* A(before={B, C}) and B in a dict without C: B.after gains A, C is dropped
C12_Witness ==
    /\ EdgesAdded
    /\ DOMAIN pres.was = {A, B}
    /\ pres.was[A].before = {B, C}
    /\ pres.was[B].after = {}
    /\ plugins[B].after = {A}
    /\ plugins[A].before = {B}

\* the dict of the sorting scenario: A(before={B}), B(before={C}), C and no
\* other edge declared, as written or with the edges mirrored, sorted as the
\* list [C, B, A]
ScenarioDict == DictFrom({A, B, C}, {<<A, "before", B>>, <<B, "before", C>>})
SortScenario ==
    /\ Sorted
    /\ pres.names = <<C, B, A>>
    /\ \/ pres.was = ScenarioDict
       \/ \E order \in HashOrders : pres.was = add_plugin_edges(ScenarioDict, order)

\* C13: given A(before={B}) and B(before={C}), sorting [C, B, A] yields an
\* order in which A precedes B and B precedes C
C13_BeforeSetFollows ==
    SortScenario => pres.out.kind = "ok" /\ Precedes(A, B) /\ Precedes(B, C)

\* C13: amended: given A(before={B}) and B(before={C}), sorting [C, B, A]
\* yields the order C, B, A: the plugins of a before set precede the plugin
C13_BeforeSetPrecedes ==
    SortScenario =>
        /\ pres.out = POk(<<C, B, A>>)
        /\ Precedes(C, B)
        /\ Precedes(B, A)

\* the scenario sorted after add_plugin_edges mirrored the edges
C13_Witness ==
    /\ SortScenario
    /\ pres.was[C].after = {B}
    /\ pres.was[B].after = {A}
    /\ pres.out.kind = "ok"
    /\ Len(pres.out.val) = 3

\* the relation among the sorted plugins: edges to plugins outside the input
\* play no part in sort_plugins
MirroredInInput ==
    \A P, Q \in SortInput : Q \in pres.was[P].before <=> P \in pres.was[Q].after
\* some arrangement of the input has every before edge pointing backwards
AcyclicInInput ==
    \E s \in Perms(SortInput) :
        \A i, j \in DOMAIN s : s[j] \in pres.was[s[i]].before => j < i
CyclicInInput == ~AcyclicInInput

\* C14: for a list of distinct plugins whose mirrored before/after relation
\* is acyclic, sort_plugins returns every input plugin exactly once, and
\* every plugin named in P.before that is in the input is emitted before P
C14_TopologicalOrder ==
    (Sorted /\ MirroredInInput /\ AcyclicInInput) =>
        /\ pres.out.kind = "ok"
        /\ Len(pres.out.val) = Len(pres.names)
        /\ Range(pres.out.val) = SortInput
        /\ \A P \in SortInput :
              \A Q \in pres.was[P].before \cap SortInput : Precedes(Q, P)

\* three plugins, one of them with two plugins in before, sorted from the
\* list that starts with it
C14_Witness ==
    /\ Sorted
    /\ MirroredInInput
    /\ AcyclicInInput
    /\ Len(pres.names) = 3
    /\ \E P \in SortInput :
          /\ pres.names[1] = P
          /\ Cardinality(pres.was[P].before \cap SortInput) = 2
          /\ pres.out.val[3] = P

\* C15: if the before/after relation among the plugins being sorted has a
\* cycle, sort_plugins signals a PluginException rather than returning a list
C15_CycleSignalled ==
    (Sorted /\ CyclicInInput) => pres.out.kind = "PluginException"

\* C24: sort_plugins comes to an end by itself on every finite list of
\* plugins, cyclic or not: visit never recurses without bound (the model
\* records an unbounded recursion of visit as the RuntimeError with which
\* the interpreter's recursion limit cuts it off)
C24_VisitBounded ==
    Sorted => pres.out.kind # "RuntimeError"

-----------------------------------------------------------------------------
(* Properties of expand_names *)

NamesExpanded == pres.op = "expand"
NoDuplicates(s) == \A i, j \in DOMAIN s : i # j => s[i] # s[j]
PlainTokens(names) == {t \in Range(names) : t # Star /\ (t = <<>> \/ Head(t) # "-")}
MinusTokens(names) == {t \in Range(names) : t # Star /\ t # <<>> /\ Head(t) = "-"}
\* inclusions, all known names if there is a wildcard, minus exclusions
ExpansionSet(dd, names) ==
    (PlainTokens(names) \cup (IF Star \in Range(names) THEN DOMAIN dd ELSE {}))
        \ {Tail(t) : t \in MinusTokens(names)}
Rearranged(s) == {[i \in DOMAIN s |-> s[p[i]]] : p \in Perms(DOMAIN s)}

\* C16: expand_names returns each name once; the names are the plain tokens,
\* with every known plugin name if a token is "*", minus the names of the
\* "-" tokens; every rearrangement of the token list gives the same set
C16_ExpansionIsSetOperation ==
    NamesExpanded =>
        /\ NoDuplicates(pres.out.val)
        /\ Range(pres.out.val) = ExpansionSet(plugins, pres.names)
        /\ \A names \in Rearranged(pres.names) :
              \E order \in NameOrders :
                  Range(expand_names(plugins, names, order)) = Range(pres.out.val)

\* known names {a, b, c} with ["*", "-b"] give exactly {a, c}
C16_Witness ==
    /\ NamesExpanded
    /\ DOMAIN plugins = {A, B, C}
    /\ pres.names = <<Star, Minus(B)>>
    /\ Range(pres.out.val) = {A, C}
    /\ Len(pres.out.val) = 2

-----------------------------------------------------------------------------
(* Properties of the registry *)

RetrievedAll == pres.op = "retrieve_plugins"
RetrievedByName == pres.op = "retrieve_named_plugins"
RetrievedInOrder == pres.op = "retrieve_sorted_plugins"
IsRetrieval == RetrievedAll \/ RetrievedByName \/ RetrievedInOrder
\* where a name first stands in the requested list
Asked1(name) == CHOOSE i \in DOMAIN pres.names :
                    pres.names[i] = name /\ \A j \in DOMAIN pres.names : pres.names[j] = name => i <= j

\* C17: retrieve_named_plugins returns the plugins in the order in which
\* their names stand in the requested list
C17_RequestOrderKept ==
    (RetrievedByName /\ pres.out.kind = "ok") =>
        \A i, j \in DOMAIN pres.out.val :
            (i < j /\ pres.out.val[i] \in Range(pres.names) /\ pres.out.val[j] \in Range(pres.names))
                => Asked1(pres.out.val[i]) < Asked1(pres.out.val[j])

\* the names the expansion of the requested list holds that d lacks
Unknown == ExpansionSet(plugins, pres.names) \ DOMAIN plugins
\* no object found for the interface passes verification
NothingFound == \A i \in DOMAIN pres.was : ~verify_plugin(pres.iface, pres.was[i])

C19_NoPluginsRaises ==
    (RetrievedAll /\ plugins = EmptyMap) => pres.out.kind = "PluginException"

\* C20: a call without parameters for an interface leaves its mapping in the
\* cache; every later call without parameters returns that mapping without
\* a scan; no step removes or changes an entry; a call with parameters scans,
\* returns what the scan finds and leaves the cache as it is
CachedOnce ==
    (IsRetrieval /\ ~pres.params) =>
        /\ pres.iface \in DOMAIN cache
        /\ cache[pres.iface] = plugins
CacheHit ==
    (nretr' = nretr + 1 /\ ~pres'.params /\ pres'.iface \in DOMAIN cache) =>
        /\ pres'.hit
        /\ ~pres'.scanned
        /\ plugins' = cache[pres'.iface]
        /\ cache' = cache
NeverInvalidated ==
    \A iface \in DOMAIN cache : iface \in DOMAIN cache' /\ cache'[iface] = cache[iface]
ParametersBypass ==
    (nretr' = nretr + 1 /\ pres'.params) =>
        /\ ~pres'.hit
        /\ pres'.scanned
        /\ cache' = cache
        /\ \E order \in HashOrders : plugins' = Discovered(pres'.iface, order)
C20_CachePolicy ==
    /\ [](CachedOnce)
    /\ [][CacheHit /\ NeverInvalidated /\ ParametersBypass]_vars

\* a second call without parameters, made after the disk changed, returns
\* the mapping of the first call, not what the disk holds now
C20_Witness ==
    /\ nretr = 2
    /\ IsRetrieval
    /\ ~pres.params
    /\ pres.hit
    /\ pres.iface = IBravoPlugin
    /\ disk[IBravoPlugin] = TwoPlain
    /\ plugins = EmptyMap
    /\ cache[IBravoPlugin] = EmptyMap

-----------------------------------------------------------------------------
(* Properties of load() in two threads *)

\* every thread has made its load() call and is through with it
AllThrough == \A t \in Threads : threads[t].pc = Through
\* the process-wide state before any call began
HostState == Visible(EnvOf(HostModules, <<>>, HostPathHooks, OriginalImportFn, EmptyMap))
\* the thread that ran the last statement
LastThread == threads[last.who]

\* C23: load() calls of two threads that run one after the other leave the
\* process-wide state as it was, but calls whose statements interleave need
\* not: when the thread that finishes last saved __import__ while the other
\* thread's xocImport was installed, that xocImport is what it puts back and
\* what the process is left with
C23_InterleavedLoadsLeaveState ==
    AllThrough =>
        /\ (\A t \in Threads : ~threads[t].raced) => Visible(Env) = HostState
        /\ LastThread.oldImport # OriginalImportFn =>
              /\ builtin_import = LastThread.oldImport
              /\ Visible(Env) # HostState

\* both calls are over and nothing is as it was: sys.meta_path holds a
\* MakerFinder, sys.path_hooks and sys.modules are empty, __import__ is a
\* xocImport
C23_Witness ==
    /\ AllThrough
    /\ \A t \in Threads : threads[t].raced
    /\ meta_path # <<>>
    /\ path_hooks = <<>>
    /\ sys_modules = EmptyMap
    /\ builtin_import # OriginalImportFn

-----------------------------------------------------------------------------
(* Properties of lookupWithMapper *)

\* the last step was an import statement run by code of a unit
ImportedInside == ImportedBy("unit") \/ ImportedBy("call")
\* what mapper.lookup of the importing code's own mapper does with the name
RawLookup == Lookup(last.via, last.name, oldSysModules, 0).out
\* the import went to the mapper of the unit being loaded
AskedOwnMapper ==
    /\ ImportedBy("unit")
    /\ CleanStack
    /\ last.via.kind = "CallableMapper"
    /\ last.name \notin DOMAIN sys_modules

\* C26: an import statement run by code of a unit ends with a module or
\* with an ImportError, whatever the mapper's lookup raises: an exception
\* of the mapper that is no ImportError reaches the importing code as the
\* ImportError lookupWithMapper raises for the name, and an ImportError of
\* the mapper reaches it as it is
C26_OnlyImportErrors ==
    /\ ImportedInside => last.out.kind \in {"ok", "ImportError"}
    /\ AskedOwnMapper =>
          /\ RawLookup.kind = "Error" =>
                last.out = ImportErr(last.name, "lookupWithMapper")
          /\ RawLookup.kind = "ImportError" => last.out = RawLookup

\* a unit loaded with the raising mapper imports 'os': the KeyError of the
\* mapper's callable has become an ImportError
C26_Witness ==
    /\ AskedOwnMapper
    /\ last.via = raisingMapper
    /\ last.name = "os"
    /\ RawLookup = OtherErr("KeyError", "callable")
    /\ last.out = ImportErr("os", "lookupWithMapper")
    /\ last.out # RawLookup

-----------------------------------------------------------------------------
(* Properties of _localImportWrapper *)

\* C25: when a callable attribute of a loaded module returns or raises,
\* __import__ is again the entrypoint that was installed when the callable
\* was called: the ambient one, a loading unit's xocImport, or the
\* redirectLocalImports of an enclosing call
C25_CallRestoresImport ==
    [][(stack # <<>> /\ Top.kind = "call" /\ stack' = Pop)
          => builtin_import' = Top.pre.import_]_vars

-----------------------------------------------------------------------------
(* Properties of the scan *)

\* the last call was a retrieve_plugins that scanned the package pres.was
FreshScan == RetrievedAll /\ pres.scanned
\* unit i yields an object that has every attribute and method of the
\* interface and does not name a plugin in both before and after
Acceptable(i) ==
    /\ pres.was[i].fault = "none"
    /\ pres.was[i].ok
    /\ pres.iface = ISortedPlugin => pres.was[i].before \cap pres.was[i].after = {}
\* the units that yield an acceptable object named n
Bearers(n) == {i \in DOMAIN pres.was : Acceptable(i) /\ pres.was[i].name = n}
LastBearer(n) == CHOOSE i \in Bearers(n) : \A j \in Bearers(n) : j <= i
\* unit i fails with an ImportError, a SyntaxError or in the adaptation
FailsQuietly(i) == pres.was[i].fault \in {"ImportError", "SyntaxError", "adapt"}
FailsLoudly(i) == pres.was[i].fault # "none" /\ ~FailsQuietly(i)
\* the objects as retrieve_plugins stores them, before any mirroring
AsFound(i) == Plugin(pres.was[i].name, pres.was[i].before, pres.was[i].after)

\* C21: a unit that fails to load, whatever its code raises, or a value that
\* fails to adapt, is skipped: the scan goes on and every acceptable object
\* of the other units is in the mapping retrieve_plugins returns
C21_ScanSurvivesBadUnit ==
    FreshScan =>
        /\ pres.out.kind = "ok"
        /\ \A i \in DOMAIN pres.was : Acceptable(i) => pres.was[i].name \in DOMAIN plugins

C27_LastHomonymWins ==
    (FreshScan /\ \A i \in DOMAIN pres.was : ~FailsLoudly(i)) =>
        /\ pres.out.kind = "ok"
        /\ \A n \in PluginNames :
              Cardinality(Bearers(n)) >= 2 =>
                  /\ n \in DOMAIN plugins
                  /\ pres.iface = IBravoPlugin => plugins[n] = AsFound(LastBearer(n))
                  /\ pres.iface = ISortedPlugin =>
                        \E order \in HashOrders :
                            plugins = add_plugin_edges(
                                [m \in DOMAIN plugins |-> AsFound(LastBearer(m))], order)

\* two plugins named "a": the one found last wants "b" before it
C27_Witness ==
    /\ FreshScan
    /\ pres.iface = IBravoPlugin
    /\ pres.was = <<Candidate(A, {}, {}, TRUE), Candidate(A, {B}, {}, TRUE)>>
    /\ DOMAIN plugins = {A}
    /\ plugins[A].before = {B}
    /\ pres.out.kind = "ok"

====
